---- MODULE Spec2Model ----
(***************************************************************************)
(* Model of evm-diff: `main` decodes a snapshot of the EVM state of a      *)
(* chain (accounts with storage, contracts by code hash) and compares it   *)
(* with a reth database read at the block the snapshot was taken at.       *)
(* The run either returns Ok(()) or panics at the first failed assertion.  *)
(***************************************************************************)
EXTENDS Integers, Sequences, FiniteSets, TLC

\* ---------------------------------------------------------------- bounds
MaxKey == 2
MaxVal == 2
MaxBlock == 2
MaxAccounts == 2
MaxContracts == 2
MaxSlots == 2
MaxIndexKey == 3

\* ------------------------------------------------------------- constants
\* B256 values are modelled by small integers: the all-zero hash, the
\* keccak of the empty byte string, and one hash of some real code.
B256_ZERO == 0
KECCAK_EMPTY == 1
CODE_HASH == KECCAK_EMPTY + 1
U256_ZERO == 0

Keys == 1..MaxKey
Vals == 0..MaxVal
Blocks == 1..MaxBlock
Hashes == {B256_ZERO, KECCAK_EMPTY, CODE_HASH}

\* Option / Result values
None == [tag |-> "None"]
Some(x) == [tag |-> "Some", val |-> x]
Err == [tag |-> "Err"]

\* ------------------------------------------------------------- Bytecode
LegacyRaw(b) == [variant |-> "LegacyRaw", bytes |-> b, original_len |-> Len(b)]
\* An analyzed bytecode keeps the code padded with a trailing STOP and the
\* length of the code before padding.
LegacyAnalyzed(b) == [variant |-> "LegacyAnalyzed", bytes |-> b \o <<0>>, original_len |-> Len(b)]
Eip7702(b) == [variant |-> "Eip7702", bytes |-> b, original_len |-> Len(b)]

\* Bytecode::original_bytes: the code without what analysis added.
original_bytes(code) ==
    CASE code.variant = "Eip7702" -> code.bytes
      [] code.variant = "LegacyAnalyzed" -> SubSeq(code.bytes, 1, code.original_len)
      [] code.variant = "LegacyRaw" -> code.bytes

\* Bytecode::is_empty of the database's bytecode: no original byte.
is_empty(code) == code.original_len = 0

\* ------------------------------------------------------------- BTreeMap
EmptyMap == [k \in {} |-> 0]
insert(m, k, v) == [x \in (DOMAIN m) \cup {k} |-> IF x = k THEN v ELSE m[x]]

\* ------------------------------------------------- the database (reth)
\* Account::get_bytecode_hash: an account without code has the hash of the
\* empty code.
get_bytecode_hash(account) ==
    IF account.bytecode_hash.tag = "None" THEN KECCAK_EMPTY ELSE account.bytecode_hash.val

\* The state provider `state`, bound to block `number`: the account of an
\* address as of that block (Ok(Some), Ok(None) or Err).
basic_account(db, address) == db.accounts[address]

\* The bytecode stored under a hash (Ok(Some), Ok(None) or Err).
bytecode_by_hash(db, hash) == db.codes[hash]

\* StateProvider::account_code: the code of the address's account.
account_code(db, address) ==
    LET account == basic_account(db, address) IN
    IF account.tag = "Err" THEN Err
    ELSE IF account.tag = "None" THEN None
    ELSE IF account.val.bytecode_hash.tag = "None" THEN None
    ELSE bytecode_by_hash(db, account.val.bytecode_hash.val)

\* The table tables::PlainStorageState read through the database provider's
\* transaction: the storage as of the database's head, a duplicate-sorted
\* table of entries ordered by address, then by slot.
PlainStorageState(db) == db.storage[db.head]

\* DbCursorRO::seek_exact: the position of the first entry of the address,
\* 0 for None.
RECURSIVE seek_from(_, _, _)
seek_from(table, address, pos) ==
    IF pos > Len(table) THEN 0
    ELSE IF table[pos].address = address THEN pos
    ELSE seek_from(table, address, pos + 1)

seek_exact(table, address) == seek_from(table, address, 1)

\* DbDupCursorRO::next_dup: the next entry when it has the same key (the
\* address) as the current one, 0 for None.
\* DbCursorRO::next in the place of next_dup: the next entry, whatever its key
next_any(table, pos) ==
    IF pos < Len(table) THEN pos + 1 ELSE 0

next_dup(table, pos) ==
    IF pos < Len(table) /\ table[pos + 1].address = table[pos].address THEN pos + 1 ELSE 0

\* The `while let` loop of extract_contract_state.
RECURSIVE scan_dups(_, _, _)
scan_dups(table, pos, storage) ==
    LET nxt == next_dup(table, pos) IN
    IF nxt = 0 THEN storage
    ELSE scan_dups(table, nxt, insert(storage, table[nxt].key, table[nxt].value))

\* extract_contract_state: Err, None, or Some(ContractState).
extract_contract_state(db, contract_address) ==
    LET account == basic_account(db, contract_address)
        bytecode == account_code(db, contract_address)
        table == PlainStorageState(db)
        first == seek_exact(table, contract_address)
        storage == IF first = 0 THEN EmptyMap
                   ELSE scan_dups(table, first,
                                  insert(EmptyMap, table[first].key, table[first].value))
    IN  IF account.tag = "Err" THEN Err
        ELSE IF account.tag = "None" THEN None
        ELSE IF bytecode.tag = "Err" THEN Err
        ELSE Some([address |-> contract_address, account |-> account.val,
                   bytecode |-> bytecode, storage |-> storage])

\* ------------------------------------------------------ the snapshot
\* `accounts` of EvmDb::InMemory: a Vec of (Address, DbAccount); the
\* storage of a DbAccount is a Vec of (slot, value).
\* The expected storage of main: the snapshot's storage without its
\* zero-valued entries, collected into a BTreeMap (a later entry of a slot
\* replaces an earlier one). A slot is a U256 in the snapshot and a B256 in
\* the table; into() gives the number's 32 big-endian bytes, one-to-one, so
\* the same number stands for the slot on both sides.
RECURSIVE collect_nonzero(_, _, _)
collect_nonzero(storage, n, m) ==
    IF n > Len(storage) THEN m
    ELSE IF storage[n][2] # U256_ZERO
         THEN collect_nonzero(storage, n + 1, insert(m, storage[n][1], storage[n][2]))
         ELSE collect_nonzero(storage, n + 1, m)

RECURSIVE collect_all(_, _, _)
collect_all(storage, n, m) ==
    IF n > Len(storage) THEN m
    ELSE collect_all(storage, n + 1, insert(m, storage[n][1], storage[n][2]))

\* expected_storage without its filter
expected_storage_unfiltered(storage) == collect_all(storage, 1, EmptyMap)

expected_storage(storage) == collect_nonzero(storage, 1, EmptyMap)

\* contracts.into_iter().collect::<HashMap<_, _>>(): a later pair of a hash
\* replaces an earlier one.
RECURSIVE collect_from(_, _, _)
collect_from(pairs, n, m) ==
    IF n > Len(pairs) THEN m
    ELSE collect_from(pairs, n + 1, insert(m, pairs[n][1], pairs[n][2]))

RECURSIVE collect_first(_, _, _)
collect_first(pairs, n, m) ==
    IF n > Len(pairs) THEN m
    ELSE IF pairs[n][1] \in DOMAIN m THEN collect_first(pairs, n + 1, m)
    ELSE collect_first(pairs, n + 1, insert(m, pairs[n][1], pairs[n][2]))

\* collect_contracts keeping the first pair of a hash
collect_contracts_first(pairs) == collect_first(pairs, 1, EmptyMap)

collect_contracts(pairs) == collect_from(pairs, 1, EmptyMap)

\* ------------------------------------------------------------ panics
\* A panic carries what its message shows: the assertion that failed, the
\* address and the block number when the format string has them, and the
\* two sides of an assert_eq!.
Panic(kind, address, block, left, right) ==
    [kind |-> kind, address |-> address, block |-> block, left |-> left, right |-> right]

NoValue == "-"

\* The arm Ok(Some(account_in_db)) of main: None when every check passes,
\* else the panic of the first assertion that fails. The nonce's message
\* has the address only; a failed read of the account's code is the panic
\* of an unwrap.
check_present(db, number, address, account, account_in_db) ==
    IF account_in_db.balance # account.info.balance
    THEN Some(Panic("balance", Some(address), Some(number),
                    account_in_db.balance, account.info.balance))
    ELSE IF account_in_db.nonce # account.info.nonce
    THEN Some(Panic("nonce", Some(address), None, account_in_db.nonce, account.info.nonce))
    ELSE IF get_bytecode_hash(account_in_db) # account.info.code_hash
    THEN Some(Panic("code_hash", Some(address), Some(number),
                    get_bytecode_hash(account_in_db), account.info.code_hash))
    ELSE LET contract_state == extract_contract_state(db, address)
             expected == expected_storage(account.storage)
         IN  IF contract_state.tag # "Some"
             THEN Some(Panic("unwrap", None, None, NoValue, NoValue))
             ELSE IF contract_state.val.storage # expected
             THEN Some(Panic("storage", Some(address), None,
                             contract_state.val.storage, expected))
             ELSE None

\* The arm Ok(None) of main: the four assert_eq! without a message.
check_absent(account) ==
    IF account.info.balance # U256_ZERO
    THEN Some(Panic("absent_balance", None, None, account.info.balance, U256_ZERO))
    ELSE IF account.info.nonce # 0
    THEN Some(Panic("absent_nonce", None, None, account.info.nonce, 0))
    ELSE IF account.info.code_hash # KECCAK_EMPTY
    THEN Some(Panic("absent_code_hash", None, None, account.info.code_hash, KECCAK_EMPTY))
    ELSE IF Len(account.storage) # 0
    THEN Some(Panic("absent_storage", None, None, Len(account.storage), 0))
    ELSE None

\* check_empty_code accepting only the absence of a code
check_empty_code_none_only(code_in_db) ==
    IF code_in_db.tag = "Err"
    THEN Some(Panic("unwrap", None, None, NoValue, NoValue))
    ELSE IF code_in_db.tag = "None"
    THEN None
    ELSE Some(Panic("empty_code", None, None, NoValue, NoValue))

\* The body of the loop over the contracts for the hash of the empty code.
check_empty_code(code_in_db) ==
    IF code_in_db.tag = "Err"
    THEN Some(Panic("unwrap", None, None, NoValue, NoValue))
    ELSE IF code_in_db.tag = "None" \/ is_empty(code_in_db.val)
    THEN None
    ELSE Some(Panic("empty_code", None, None, NoValue, NoValue))

\* check_code comparing the bytes as stored, analysis padding included
check_code_raw(code_hash, code, code_in_db) ==
    IF code_in_db.tag = "Err"
    THEN [panic |-> Some(Panic("unwrap", None, None, NoValue, NoValue)), print |-> None]
    ELSE IF code_in_db.tag = "Some"
    THEN IF code_in_db.val.bytes # code.bytes
         THEN [panic |-> Some(Panic("code_mismatch", None, None,
                                    code_in_db.val.bytes, code.bytes)),
               print |-> None]
         ELSE [panic |-> None, print |-> None]
    ELSE IF code_hash = B256_ZERO
    THEN [panic |-> None, print |-> Some([line |-> "WHAT", arg |-> code.bytes])]
    ELSE [panic |-> Some(Panic("code_not_found", None, None, code_hash, NoValue)),
          print |-> None]

\* The body of the loop over the contracts for any other hash. The result
\* is the panic, or the line printed for the all-zero hash.
check_code(code_hash, code, code_in_db) ==
    IF code_in_db.tag = "Err"
    THEN [panic |-> Some(Panic("unwrap", None, None, NoValue, NoValue)), print |-> None]
    ELSE IF code_in_db.tag = "Some"
    THEN IF original_bytes(code_in_db.val) # original_bytes(code)
         THEN [panic |-> Some(Panic("code_mismatch", None, None,
                                    original_bytes(code_in_db.val), original_bytes(code))),
               print |-> None]
         ELSE [panic |-> None, print |-> None]
    ELSE IF code_hash = B256_ZERO
    THEN [panic |-> None, print |-> Some([line |-> "WHAT", arg |-> original_bytes(code)])]
    ELSE [panic |-> Some(Panic("code_not_found", None, None, code_hash, NoValue)),
          print |-> None]

\* --------------------------------------------------------------- state
VARIABLES
    accounts,       \* the snapshot's accounts: Seq of <<address, DbAccount>>
    contracts,      \* the snapshot's contracts: Seq of <<code hash, Bytecode>>
    header_number,  \* the number of the snapshot's latest block header
    db,             \* the reth database: head, accounts and codes as of
                    \* header_number, storage as of each block up to head
    pc,             \* "start", "accounts", "contracts", "done", "panicked"
    block_number,   \* main's block_number
    contracts_map,  \* main's HashMap of the contracts
    pending,        \* the hashes the loop over the HashMap has not yielded yet
    i,              \* the position of the loop over the accounts
    stdout,         \* the lines printed
    panic,          \* the panic that ended the run, if any
    extracted       \* the result of a call of extract_contract_state alone

vars == <<accounts, contracts, header_number, db, pc, block_number, contracts_map,
          pending, i, stdout, panic, extracted>>

\* ---------------------------------------------------------------- inputs
\* Two addresses, A and B; balances and nonces zero or not.
Addrs == {1, 2}
Balances == {0, 1}
Nonces == {0, 1}

Infos == [balance : Balances, nonce : Nonces, code_hash : {KECCAK_EMPTY, CODE_HASH}]

\* Sequences over S of length lo..hi
SeqsOf(S, lo, hi) == UNION {[1..n -> S] : n \in lo..hi}

StoragePairs == Keys \X Vals

\* The accounts of the database: reth's Account, with or without code.
StoreAccounts == [balance : Balances, nonce : {1}, bytecode_hash : {None, Some(CODE_HASH)}]
AccountResults == {None, Err} \cup {Some(a) : a \in StoreAccounts}

\* An account without code, and the snapshot's record that matches it.
TheAccount == [balance |-> 1, nonce |-> 1, bytecode_hash |-> None]
TheInfo == [balance |-> 1, nonce |-> 1, code_hash |-> KECCAK_EMPTY]
DefaultInfo == [balance |-> U256_ZERO, nonce |-> 0, code_hash |-> KECCAK_EMPTY]
TheCode == LegacyRaw(<<1>>)

\* The storage tables: for every address and slot no entry (Absent) or a
\* value, as a sequence sorted by address, then by slot.
Absent == 0 - 1
TableOf(f, keys) ==
    LET all == [n \in 1..(Cardinality(Addrs) * keys) |->
                    [address |-> ((n - 1) \div keys) + 1,
                     key |-> ((n - 1) % keys) + 1,
                     value |-> f[<<((n - 1) \div keys) + 1, ((n - 1) % keys) + 1>>]]]
        Present(e) == e.value # Absent
    IN  SelectSeq(all, Present)
EmptyTable == << >>

\* The slots of address a as in f, those of the other address as in g.
SlotsOf(a, f, g) == [p \in Addrs \X Keys |-> IF p[1] = a THEN f[p[2]] ELSE g[p[2]]]

CodeResults == {None, Err, Some(LegacyAnalyzed(<<>>)), Some(LegacyAnalyzed(<<1>>)),
                Some(LegacyRaw(<<2>>))}
SnapshotCodes == {LegacyRaw(<<>>), LegacyRaw(<<1>>), LegacyAnalyzed(<<2>>), Eip7702(<<2>>)}

StartState ==
    /\ pc = "start"
    /\ block_number = 0
    /\ contracts_map = EmptyMap
    /\ pending = {}
    /\ i = 0
    /\ stdout = << >>
    /\ panic = None
    /\ extracted = None

\* Snapshots whose accounts differ in their fields, against databases whose
\* accounts differ.
InitFields ==
    /\ accounts \in SeqsOf(Addrs \X [info : Infos, storage : {<< >>}], 1, MaxAccounts)
    /\ contracts = << <<CODE_HASH, TheCode>> >>
    /\ header_number = 1
    /\ \E accs \in [Addrs -> AccountResults] :
          db = [head |-> 1, accounts |-> accs,
                codes |-> [h \in Hashes |-> IF h = CODE_HASH THEN Some(TheCode) ELSE None],
                storage |-> [b \in {1} |-> EmptyTable]]

\* One account of the snapshot with any storage, its fields those of the
\* database's account, against any storage of its address in the database,
\* the other address having every slot.
InitStorage ==
    /\ accounts \in SeqsOf(Addrs \X [info : {TheInfo},
                                     storage : SeqsOf(StoragePairs, 0, MaxSlots)], 1, 1)
    /\ contracts = << >>
    /\ header_number = 1
    /\ \E f \in [Keys -> {Absent, U256_ZERO, MaxVal}] :
          db = [head |-> 1, accounts |-> [a \in Addrs |-> Some(TheAccount)],
                codes |-> [h \in Hashes |-> None],
                storage |-> [b \in {1} |->
                                TableOf(SlotsOf(accounts[1][1], f, [k \in Keys |-> MaxVal]),
                                        MaxKey)]]

\* One account of the snapshot with at most one slot, against a database
\* with the same answer for every address, the code of an account being
\* readable or not.
InitSingle ==
    /\ accounts \in SeqsOf(Addrs \X [info : Infos, storage : SeqsOf(StoragePairs, 0, 1)], 1, 1)
    /\ contracts = << >>
    /\ header_number = 1
    /\ \E acc \in AccountResults, code \in {Some(TheCode), Err} :
          db = [head |-> 1, accounts |-> [a \in Addrs |-> acc],
                codes |-> [h \in Hashes |-> IF h = CODE_HASH THEN code ELSE None],
                storage |-> [b \in {1} |-> EmptyTable]]

\* The database's head before, at or past the snapshot's block: the storage
\* of address 1 as of a block is that of the block before it after one
\* write (of a value, or a removal), blocks past the head writing nothing;
\* the snapshot has address 1 with the storage of its block, or with one
\* slot changed.
WriteTo(f, w) == [f EXCEPT ![w[1]] = w[2]]
RECURSIVE StorageAsOf(_, _, _)
StorageAsOf(f, writes, b) ==
    IF b = 1 THEN f
    ELSE IF b \in DOMAIN writes THEN WriteTo(StorageAsOf(f, writes, b - 1), writes[b])
    ELSE StorageAsOf(f, writes, b - 1)

SnapshotStorage(f) ==
    LET all == [k \in Keys |-> <<k, f[k]>>]
        Present(e) == e[2] # Absent
    IN  SelectSeq(all, Present)

InitHistory ==
    /\ header_number \in Blocks
    /\ contracts = << >>
    /\ \E head \in Blocks, f \in [Keys -> {Absent, 1}], delta \in Keys \X {Absent, 1} :
       \E writes \in [2..head -> Keys \X {Absent, MaxVal}] :
          /\ db = [head |-> head, accounts |-> [a \in Addrs |-> Some(TheAccount)],
                   codes |-> [h \in Hashes |-> None],
                   storage |-> [b \in 1..head |->
                                   TableOf(SlotsOf(1, StorageAsOf(f, writes, b),
                                                   [k \in Keys |-> Absent]), MaxKey)]]
          /\ accounts \in
                {<< <<1, [info |-> TheInfo,
                          storage |-> SnapshotStorage(StorageAsOf(f, writes, header_number))]>> >>,
                 << <<1, [info |-> TheInfo,
                          storage |-> SnapshotStorage(
                              WriteTo(StorageAsOf(f, writes, header_number), delta))]>> >>}

\* Any contracts, against any stored codes.
InitContracts ==
    /\ accounts = << >>
    /\ contracts \in SeqsOf(Hashes \X SnapshotCodes, 0, MaxContracts)
    /\ header_number = 1
    /\ \E codes \in [Hashes -> CodeResults] :
          db = [head |-> 1, accounts |-> [a \in Addrs |-> None], codes |-> codes,
                storage |-> [b \in {1} |-> EmptyTable]]

Init ==
    StartState /\ (InitFields \/ InitStorage \/ InitSingle \/ InitHistory \/ InitContracts)

\* --------------------------------------------------------------- actions
\* Where the loops stand after the account at position n - 1.
LoopAt(n) == IF n <= Len(accounts) THEN "accounts" ELSE "contracts"

\* main up to the loops: the block number of the snapshot's header, the
\* state provider of that block (no state for a block past the head), and
\* the HashMap of the contracts.
Setup ==
    /\ pc = "start"
    /\ block_number' = header_number
    /\ IF header_number > db.head
       THEN /\ panic' = Some(Panic("unwrap", None, None, NoValue, NoValue))
            /\ pc' = "panicked"
            /\ UNCHANGED <<contracts_map, pending, i>>
       ELSE /\ contracts_map' = collect_contracts(contracts)
            /\ pending' = DOMAIN collect_contracts(contracts)
            /\ i' = 1
            /\ pc' = LoopAt(1)
            /\ UNCHANGED panic
    /\ UNCHANGED <<extracted, accounts, contracts, header_number, db, stdout>>

\* What the body of a loop leaves: the panic, or the next position.
AccountOutcome(result) ==
    /\ panic' = result
    /\ IF result = None
       THEN i' = i + 1 /\ pc' = LoopAt(i + 1)
       ELSE i' = i /\ pc' = "panicked"

AccountPresent ==
    /\ pc = "accounts"
    /\ basic_account(db, accounts[i][1]).tag = "Some"
    /\ AccountOutcome(check_present(db, block_number, accounts[i][1], accounts[i][2],
                                    basic_account(db, accounts[i][1]).val))
    /\ UNCHANGED <<extracted, accounts, contracts, header_number, db, block_number, contracts_map,
                   pending, stdout>>

AccountAbsent ==
    /\ pc = "accounts"
    /\ basic_account(db, accounts[i][1]).tag = "None"
    /\ AccountOutcome(check_absent(accounts[i][2]))
    /\ UNCHANGED <<extracted, accounts, contracts, header_number, db, block_number, contracts_map,
                   pending, stdout>>

\* AccountError ending the run at the failed lookup
AccountErrorAborts ==
    /\ pc = "accounts"
    /\ basic_account(db, accounts[i][1]).tag = "Err"
    /\ panic' = Some(Panic("unwrap", None, None, NoValue, NoValue))
    /\ pc' = "panicked"
    /\ UNCHANGED <<extracted, accounts, contracts, header_number, db, block_number, contracts_map,
                   pending, stdout, i>>

AccountError ==
    /\ pc = "accounts"
    /\ basic_account(db, accounts[i][1]).tag = "Err"
    /\ stdout' = Append(stdout, [line |-> "Error getting account", arg |-> accounts[i][1]])
    /\ i' = i + 1
    /\ pc' = LoopAt(i + 1)
    /\ UNCHANGED <<extracted, accounts, contracts, header_number, db, block_number, contracts_map,
                   pending, panic>>

\* One turn of the loop over the HashMap, which yields its pairs in any order.
ContractEmpty ==
    /\ pc = "contracts"
    /\ KECCAK_EMPTY \in pending
    /\ panic' = check_empty_code(bytecode_by_hash(db, KECCAK_EMPTY))
    /\ pending' = pending \ {KECCAK_EMPTY}
    /\ pc' = IF panic' = None THEN "contracts" ELSE "panicked"
    /\ UNCHANGED <<extracted, accounts, contracts, header_number, db, block_number, contracts_map, i,
                   stdout>>

ContractCode ==
    /\ pc = "contracts"
    /\ \E code_hash \in pending \ {KECCAK_EMPTY} :
          LET result == check_code(code_hash, contracts_map[code_hash],
                                   bytecode_by_hash(db, code_hash))
          IN  /\ panic' = result.panic
              /\ stdout' = IF result.print = None THEN stdout
                           ELSE Append(stdout, result.print.val)
              /\ pending' = pending \ {code_hash}
              /\ pc' = IF result.panic = None THEN "contracts" ELSE "panicked"
    /\ UNCHANGED <<extracted, accounts, contracts, header_number, db, block_number, contracts_map, i>>

\* Ok(()) once both loops are over.
Finish ==
    /\ pc = "contracts"
    /\ pending = {}
    /\ pc' = "done"
    /\ UNCHANGED <<extracted, accounts, contracts, header_number, db, block_number, contracts_map,
                   pending, i, stdout, panic>>

Next ==
    \/ Setup
    \/ AccountPresent
    \/ AccountAbsent
    \/ AccountError
    \/ ContractEmpty
    \/ ContractCode
    \/ Finish

Spec == Init /\ [][Next]_vars

\* ------------------------------------- extract_contract_state by itself
\* Any table over the slots 1..MaxIndexKey of both addresses, and the
\* address with or without an account, with or without code.
IndexKeys == 1..MaxIndexKey

InitExtract ==
    /\ pc = "extract"
    /\ block_number = 1
    /\ header_number = 1
    /\ contracts_map = EmptyMap
    /\ contracts = << >>
    /\ pending = {}
    /\ i = 1
    /\ stdout = << >>
    /\ panic = None
    /\ extracted = None
    /\ accounts \in SeqsOf(Addrs \X [info : {TheInfo}, storage : {<< >>}], 1, 1)
    /\ \E f \in [Addrs \X IndexKeys -> {Absent, 0, MaxVal}],
          acc \in {None, Err, Some(TheAccount),
                   Some([balance |-> 1, nonce |-> 1, bytecode_hash |-> Some(CODE_HASH)])},
          code \in {Some(TheCode), Err} :
          db = [head |-> 1, accounts |-> [a \in Addrs |-> acc],
                codes |-> [h \in Hashes |-> IF h = CODE_HASH THEN code ELSE None],
                storage |-> [b \in {1} |-> TableOf(f, MaxIndexKey)]]

\* A call of extract_contract_state for the address.
Extract ==
    /\ pc = "extract"
    /\ extracted' = extract_contract_state(db, accounts[i][1])
    /\ pc' = "extracted"
    /\ UNCHANGED <<accounts, contracts, header_number, db, block_number, contracts_map,
                   pending, i, stdout, panic>>

NextExtract == Extract

SpecExtract == InitExtract /\ [][NextExtract]_vars

\* ------------------------------------------------- what the claims speak of
AddrOf(j) == accounts[j][1]
RecOf(j) == accounts[j][2]

\* The account at position j went through the loop's body without a panic.
Passed(j) == pc # "start" /\ j < i
\* The run panicked in the loop's body for the account at position j.
PanickedAt(j) == pc = "panicked" /\ i = j

IsPresent(j) == db.accounts[AddrOf(j)].tag = "Some"
IsAbsent(j) == db.accounts[AddrOf(j)].tag = "None"
IsFault(j) == db.accounts[AddrOf(j)].tag = "Err"

\* The code hash of the database's account: that of the empty code for an
\* account without code.
StoredHash(j) ==
    LET h == db.accounts[AddrOf(j)].val.bytecode_hash IN
    IF h = None THEN KECCAK_EMPTY ELSE h.val

\* The first of balance, nonce and code hash that differs, "none" if none.
FirstDiff(j) ==
    LET a == db.accounts[AddrOf(j)].val IN
    IF a.balance # RecOf(j).info.balance THEN "balance"
    ELSE IF a.nonce # RecOf(j).info.nonce THEN "nonce"
    ELSE IF StoredHash(j) # RecOf(j).info.code_hash THEN "code_hash"
    ELSE "none"

\* The lookup of the code of the account's address does not fail.
CodeReadable(j) ==
    LET h == db.accounts[AddrOf(j)].val.bytecode_hash IN
    h = None \/ db.codes[h.val] # Err

\* The values the table has for a slot of an address (at most one).
TableSlot(table, a, k) ==
    {table[n].value : n \in {m \in 1..Len(table) : table[m].address = a /\ table[m].key = k}}

\* The value the snapshot's storage has for a slot, zero-valued entries left
\* out: that of the last entry of the slot that is not zero.
SnapshotSlot(storage, k) ==
    LET ns == {n \in 1..Len(storage) : storage[n][1] = k /\ storage[n][2] # 0} IN
    IF ns = {} THEN {} ELSE {storage[CHOOSE n \in ns : \A m \in ns : m <= n][2]}

\* The table and the snapshot's storage agree on every slot of the address.
StorageAgrees(table, j) ==
    \A k \in Keys : TableSlot(table, AddrOf(j), k) = SnapshotSlot(RecOf(j).storage, k)

\* The same, the table's zero-valued entries left out too.
StorageAgreesButZeros(table, j) ==
    \A k \in Keys : TableSlot(table, AddrOf(j), k) \ {0} = SnapshotSlot(RecOf(j).storage, k)

\* C1: for an account the database has, a difference in balance, nonce or
\* code hash ends the run with a panic (never Ok), and the panic names the
\* field, the address and the block number.
C1_FieldMismatchNamed ==
    \A j \in 1..Len(accounts) :
        (IsPresent(j) /\ FirstDiff(j) # "none") =>
            /\ pc # "done"
            /\ ~Passed(j)
            /\ PanickedAt(j) =>
                  /\ panic.val.kind = FirstDiff(j)
                  /\ panic.val.address = Some(AddrOf(j))
                  /\ panic.val.block = Some(header_number)

\* C2: for an account the database does not have, the all-defaults record
\* passes, and any other record is a panic that cites the address.
IsDefault(rec) ==
    /\ rec.info.balance = 0
    /\ rec.info.nonce = 0
    /\ rec.info.code_hash = KECCAK_EMPTY
    /\ rec.storage = << >>

C2_AbsentDefaults ==
    \A j \in 1..Len(accounts) :
        IsAbsent(j) =>
            IF IsDefault(RecOf(j))
            THEN ~PanickedAt(j)
            ELSE /\ ~Passed(j)
                 /\ pc # "done"
                 /\ PanickedAt(j) => panic.val.address = Some(AddrOf(j))

\* C3: for an account the database has with the same fields, the storage
\* check passes exactly when the table of the database and the snapshot's
\* storage without its zero-valued entries agree on every slot.
C3_StorageCheck ==
    \A j \in 1..Len(accounts) :
        (IsPresent(j) /\ FirstDiff(j) = "none" /\ CodeReadable(j)) =>
            /\ Passed(j) => StorageAgrees(db.storage[db.head], j)
            /\ PanickedAt(j) =>
                  /\ panic.val.kind = "storage"
                  /\ ~StorageAgrees(db.storage[db.head], j)

\* C3's case: an account passed whose snapshot storage has a zero-valued
\* entry of a slot the table lacks, and a slot with a value.
C3_Witness ==
    \E j \in 1..Len(accounts) :
        /\ IsPresent(j) /\ Passed(j)
        /\ \E n \in 1..Len(RecOf(j).storage) :
              /\ RecOf(j).storage[n][2] = 0
              /\ TableSlot(db.storage[db.head], AddrOf(j), RecOf(j).storage[n][1]) = {}
        /\ \E k \in Keys : TableSlot(db.storage[db.head], AddrOf(j), k) = {MaxVal}

\* C4: a zero-valued entry in the database's table is irrelevant: when the
\* table without its zero-valued entries agrees with the snapshot's
\* storage, the account passes.
C4_StoreZeroIrrelevant ==
    \A j \in 1..Len(accounts) :
        (/\ IsPresent(j) /\ FirstDiff(j) = "none" /\ CodeReadable(j)
         /\ StorageAgreesButZeros(db.storage[db.head], j)) =>
            ~PanickedAt(j)

\* C9: the storage compared is that of the snapshot's block: an account
\* with the same fields passes exactly when the snapshot's storage agrees
\* with the database's storage as of the block of the snapshot's header.
C9_StorageAsOfBlock ==
    \A j \in 1..Len(accounts) :
        (/\ IsPresent(j) /\ FirstDiff(j) = "none" /\ CodeReadable(j)
         /\ header_number <= db.head) =>
            /\ Passed(j) => StorageAgrees(db.storage[header_number], j)
            /\ PanickedAt(j) => ~StorageAgrees(db.storage[header_number], j)

\* C5: a failed lookup of an account does not end the run: it is printed,
\* the accounts after it and the contracts are still checked.
C5_FaultContinues ==
    /\ \A j \in 1..Len(accounts) :
          IsFault(j) =>
              /\ ~PanickedAt(j)
              /\ Passed(j) =>
                    \E n \in 1..Len(stdout) :
                        stdout[n] = [line |-> "Error getting account", arg |-> AddrOf(j)]
    /\ pc \in {"contracts", "done"} => i = Len(accounts) + 1
    /\ pc = "done" => pending = {}

\* C5's case: a run that ended Ok with a failed lookup followed by an
\* account that was checked, and a contract.
C5_Witness ==
    /\ pc = "done"
    /\ contracts # << >>
    /\ \E j \in 1..Len(accounts) - 1 : IsFault(j) /\ ~IsFault(j + 1)

\* The bytes of a code without the padding of its analysis.
CanonicalBytes(code) ==
    IF code.variant = "LegacyAnalyzed"
    THEN [n \in 1..code.original_len |-> code.bytes[n]]
    ELSE code.bytes

\* The loop over the contracts began.
InContracts == pc \in {"contracts", "done", "panicked"} /\ i = Len(accounts) + 1
\* The hashes the loop over the contracts went through.
CheckedHashes == IF InContracts THEN (DOMAIN contracts_map) \ pending ELSE {}

\* C6: for the hash of the empty code the check passes when the database
\* has no code or an empty code under it, and panics when it has any other
\* code, whatever the snapshot's code for the hash.
C6_EmptyCodeHash ==
    (KECCAK_EMPTY \in CheckedHashes /\ db.codes[KECCAK_EMPTY] # Err) =>
        IF db.codes[KECCAK_EMPTY] = None
              \/ CanonicalBytes(db.codes[KECCAK_EMPTY].val) = << >>
        THEN panic = None \/ panic.val.kind # "empty_code"
        ELSE pc = "panicked" /\ panic.val.kind = "empty_code"

\* C6's case: the check passed with an empty analyzed code in the database
\* and a snapshot code for the hash that is not empty.
C6_Witness ==
    /\ KECCAK_EMPTY \in CheckedHashes
    /\ pc \in {"contracts", "done"}
    /\ db.codes[KECCAK_EMPTY] = Some(LegacyAnalyzed(<< >>))
    /\ CanonicalBytes(contracts_map[KECCAK_EMPTY]) # << >>

\* The check of a hash other than that of the empty code is to pass.
ShouldPass(h) ==
    \/ /\ db.codes[h].tag = "Some"
       /\ CanonicalBytes(db.codes[h].val) = CanonicalBytes(contracts_map[h])
    \/ /\ db.codes[h] = None
       /\ h = B256_ZERO

\* The hashes gone through whose check is not to pass.
Failing ==
    {h \in CheckedHashes \ {KECCAK_EMPTY} : db.codes[h] # Err /\ ~ShouldPass(h)}

\* C7: for a hash other than that of the empty code the check passes
\* exactly when the database's code has the snapshot code's canonical bytes,
\* or the database has no code and the hash is all-zero, which is printed;
\* anything else is a panic.
C7_CodeCheck ==
    /\ pc \in {"contracts", "done"} => Failing = {}
    /\ (pc = "panicked" /\ InContracts) =>
          IF panic.val.kind \in {"code_mismatch", "code_not_found"}
          THEN /\ Cardinality(Failing) = 1
               /\ \A h \in Failing :
                     IF db.codes[h] = None THEN panic.val.kind = "code_not_found"
                     ELSE panic.val.kind = "code_mismatch"
          ELSE Failing = {}
    /\ (B256_ZERO \in CheckedHashes /\ db.codes[B256_ZERO] = None) =>
          \E n \in 1..Len(stdout) : stdout[n].line = "WHAT"

\* C7's case: the run ended Ok after the all-zero hash without a code in
\* the database, and a hash whose code the database has in another variant.
C7_Witness ==
    /\ pc = "done"
    /\ B256_ZERO \in CheckedHashes /\ db.codes[B256_ZERO] = None
    /\ CODE_HASH \in CheckedHashes
    /\ db.codes[CODE_HASH].val.variant # contracts_map[CODE_HASH].variant
    /\ db.codes[CODE_HASH].val.bytes # contracts_map[CODE_HASH].bytes

\* C8: extract_contract_state returns for an address with an account
\* exactly the table's entries of the address, and None without an account.
C8_ExtractOwnEntries ==
    pc = "extracted" =>
        LET a == AddrOf(1)
            table == db.storage[db.head]
        IN  /\ db.accounts[a] = None => extracted = None
            /\ (db.accounts[a].tag = "Some" /\ CodeReadable(1)) =>
                  /\ extracted.tag = "Some"
                  /\ DOMAIN extracted.val.storage \subseteq IndexKeys
                  /\ \A k \in IndexKeys :
                        IF k \in DOMAIN extracted.val.storage
                        THEN TableSlot(table, a, k) = {extracted.val.storage[k]}
                        ELSE TableSlot(table, a, k) = {}

\* C8's case: address 1 with three entries followed by address 2 with two,
\* and the three entries extracted.
C8_Witness ==
    /\ pc = "extracted"
    /\ AddrOf(1) = 1
    /\ extracted.tag = "Some"
    /\ Cardinality(DOMAIN extracted.val.storage) = 3
    /\ Cardinality({n \in 1..Len(db.storage[1]) : db.storage[1][n].address = 1}) = 3
    /\ Cardinality({n \in 1..Len(db.storage[1]) : db.storage[1][n].address = 2}) = 2

\* The hashes of the snapshot's contracts, and the last place of each.
SnapshotHashes == {contracts[n][1] : n \in 1..Len(contracts)}
LastOf(h) ==
    CHOOSE n \in 1..Len(contracts) :
        contracts[n][1] = h /\ \A m \in (n + 1)..Len(contracts) : contracts[m][1] # h

\* C10: the loop over the contracts goes through every hash of the snapshot
\* once, with the code of the hash's last pair.
C10_DistinctLastWins ==
    (pc \in {"accounts", "contracts", "done"} \/ (pc = "panicked" /\ i >= 1)) =>
        /\ DOMAIN contracts_map = SnapshotHashes
        /\ \A h \in SnapshotHashes : contracts_map[h] = contracts[LastOf(h)][2]
        /\ pending \subseteq SnapshotHashes
        /\ pc = "done" => pending = {}
        /\ Cardinality({n \in 1..Len(stdout) : stdout[n].line = "WHAT"}) <= 1
        /\ \A n \in 1..Len(stdout) :
              stdout[n].line = "WHAT" =>
                  stdout[n].arg = CanonicalBytes(contracts[LastOf(B256_ZERO)][2])
        /\ pc = "done" =>
              \A h \in SnapshotHashes \ {KECCAK_EMPTY} :
                  db.codes[h].tag = "Some" =>
                      CanonicalBytes(db.codes[h].val)
                          = CanonicalBytes(contracts[LastOf(h)][2])

\* C10's case: the run ended Ok for a snapshot with two pairs of one hash
\* whose codes differ, the database having a code under the hash.
C10_Witness ==
    /\ pc = "done"
    /\ \E n \in 1..Len(contracts), m \in 1..Len(contracts) :
          /\ n < m
          /\ contracts[n][1] = contracts[m][1]
          /\ contracts[n][1] # KECCAK_EMPTY
          /\ CanonicalBytes(contracts[n][2]) # CanonicalBytes(contracts[m][2])
          /\ db.codes[contracts[n][1]].tag = "Some"

====
